---- MODULE Spec2Model ----
(***************************************************************************)
(* Growable raw memory blocks of linksplatform/mem-rs: the RawPlace         *)
(* capacity ledger with its heap owner, the fixed-buffer PreAlloc, the      *)
(* memory-mapped FileMapped and the buffered AsyncFileMem.  Every backend   *)
(* has its own variables and its own specification; the variables of the    *)
(* other backends stay at their initial values.                             *)
(***************************************************************************)
EXTENDS Integers, Sequences, FiniteSets, TLC

\* ---------------------------------------------------------------- bounds
\* width of usize in bits; isize::MAX bounds the byte size of a Layout
UsizeBits == 16
\* largest ordinary grow/shrink amount tried (usize::MAX is tried as well)
MaxGrow == 3
\* largest capacity a block is grown to
MaxCap == 3
\* size_of::<T>() of the heap and mmap item type, in bytes
ItemSize == 2

UsizeMax == 2 ^ UsizeBits - 1
IsizeMax == 2 ^ (UsizeBits - 1) - 1
\* the item values told apart: two reference-counted targets
Values == {1, 2}
Amounts == (0 .. MaxGrow) \cup {UsizeMax}
NoPanic == 0 - 1
\* number of initializer panics followed within one behaviour
MaxPanics == 1
\* largest length of the caller's buffer under a PreAlloc
MaxBuf == 2
\* largest length an AsyncFileMem buffer is grown to
MaxLen == 2
\* largest capacity a FileMapped block is given
MapCap == 2
\* traits.rs: DEFAULT_PAGE_SIZE (targets other than espidf)
DEFAULT_PAGE_SIZE == 8192

\* ---------------------------------------------------------------- helpers
Count(s, v) == Cardinality({i \in DOMAIN s : s[i] = v})
Repeat(n, v) == [i \in 1 .. n |-> v]
Prefix(s, n) == SubSeq(s, 1, n)
\* the events <<"drop", i>> for i = lo .. hi in increasing order
DropEvents(lo, hi) == [i \in 1 .. (hi - lo + 1) |-> <<"drop", lo + i - 1>>]
\* reference counts after destroying the elements of s
Destroy(st, s) == [v \in Values |-> st[v] - Count(s, v)]
\* the values of cells at the indices named by a sequence of drop events
EventValues(cells, evs) == [i \in 1 .. Len(evs) |-> cells[evs[i][2]]]
\* number of events of evs equal to e
Occurs(evs, e) == Cardinality({i \in DOMAIN evs : evs[i] = e})
\* position of the first event of evs equal to e, 0 if there is none
FirstAt(evs, e) ==
    IF Occurs(evs, e) = 0 THEN 0
    ELSE CHOOSE i \in DOMAIN evs :
            evs[i] = e /\ \A j \in DOMAIN evs : evs[j] = e => i <= j
\* reference counts after creating the elements of s
Create(st, s) == [v \in Values |-> st[v] + Count(s, v)]

RECURSIVE Decode(_)
\* the item whose bytes in memory order are b
Decode(b) == IF Len(b) = 0 THEN 0 ELSE b[1] + 256 * Decode(Tail(b))

\* variant of the zero fill that writes the byte 1 (write_bytes(1u8, ..))
ZeroedOnes(size) == Decode(Repeat(size, 1))

\* the item left by write_bytes(0u8, ..) over the `size` bytes of a slot
Zeroed(size) == Decode(Repeat(size, 0))

VARIABLES
    hPlace,   \* RawPlace of the heap block: [ptr, cap]
    hCells,   \* elements behind hPlace.ptr, index 1 is element 0
    hStrong,  \* external strong count of every value held by heap elements
    hAlive,   \* FALSE once the heap handle has been dropped
    hLedger,  \* sum of successful grows minus successful shrinks (ghost)
    hSince,   \* the same sum, restarted by every panicking initializer (ghost)
    hPanics,  \* number of initializer panics so far (ghost)
    hLast     \* the last heap operation: arguments, result, events, pre-state

heapVars == <<hPlace, hCells, hStrong, hAlive, hLedger, hSince, hPanics, hLast>>

VARIABLES
    pKind,      \* which PreAlloc the handle is: "fill" (grow with an
                \* initializer, src/prealloc.rs) or "alloc" (rust/src/prealloc.rs)
    pPlace,     \* PreAlloc.place: the caller's buffer, never resized
    pUsed,      \* PreAlloc.used
    pLast,      \* the last operation on the PreAlloc
    bData,      \* PreAlloc<T, D>.data of the alloc-based trait
    bAllocated, \* PreAlloc<T, D>.allocated
    bOccupied,  \* PreAlloc<T, D>.occupied
    bLast       \* the last operation on the PreAlloc<T, D>

preVars == <<pKind, pPlace, pUsed, pLast, bData, bAllocated, bOccupied, bLast>>

VARIABLES
    aIds,       \* the AsyncFileMem handles of the scenario
    aPaths,     \* the paths the scenario constructs handles at
    aElemSize,  \* mem::size_of::<T>() of the AsyncFileMem item type
    aMem,       \* per handle: live, buffer, path, dirty, and the suspension
                \* point (pc) of a running sync / flush (job)
    aFs,        \* per path: whether the file exists, and its bytes
    aSynced,    \* per path: the buffer written by the last completed sync (ghost)
    aLast       \* the last AsyncFileMem step

asyncVars == <<aIds, aPaths, aElemSize, aMem, aFs, aSynced, aLast>>

VARIABLES
    mItem,      \* mem::size_of::<T>() of the FileMapped item type
    mBuild,     \* "debug" (overflow checks on) or "release" (wrapping)
    mFileLen,   \* length of the file in bytes
    mState,     \* "none", "mapped", "unmapped", "dropped" or "crashed"
    mMapLen,    \* length in bytes of the last mapping made
    mCap,       \* base.ptr.len(): what allocated() reports
    mSlots,     \* per slot of the file: "live", or "dropped" / "twice" when
                \* destroyed once / more often since the caller last wrote it
    mLast       \* the last FileMapped step

mapVars == <<mItem, mBuild, mFileLen, mState, mMapLen, mCap, mSlots, mLast>>

VARIABLE backend    \* the backend the scenario exercises

\* ---------------------------------------------------------------- RawPlace
Dangling == [ptr |-> "dangling", cap |-> 0]

\* variants of RawPlace's drop that destroy nothing / miss the last element
RawPlaceDropNothing(place) == <<>>

RawPlaceDropShort(place) == DropEvents(1, place.cap - 1)

\* impl Drop for RawPlace: drop_in_place of the slice [0, cap)
RawPlaceDrop(place) == DropEvents(1, place.cap)

\* variant of the Guard that also destroys the slot whose value panicked
GuardDropOneMore(base, init) == DropEvents(base + 1, base + init + 1)

\* Guard::drop: drop_in_place of the initialised prefix [0, init) of the
\* new region, which starts at element `base` of the block
GuardDrop(base, init) == DropEvents(base + 1, base + init)

\* variant of fn inner that fills the new region from its highest slot down
GrowWithInnerBackwards(base, addition, vals, panicAt) ==
    LET done == IF panicAt = NoPanic THEN addition ELSE panicAt
        writes == [i \in 1 .. done |-> <<"write", base + addition + 1 - i>>]
    IN  [ panicked |-> panicAt # NoPanic,
          slots    |-> [i \in 1 .. done |-> vals[done + 1 - i]],
          created  |-> Prefix(vals, done),
          clones   |-> 0,
          events   |-> IF panicAt = NoPanic THEN writes
                       ELSE writes \o <<<<"call_panics", base + panicAt + 1>>>>
                                   \o GuardDrop(base, done),
          dropped  |-> IF panicAt = NoPanic THEN <<>>
                       ELSE [i \in 1 .. Len(GuardDrop(base, done)) |->
                                vals[GuardDrop(base, done)[i][2] - base]] ]

\* RawMem::grow_with, fn inner: write f() into every new slot in order; a
\* panic of call number panicAt (0-based) unwinds through the Guard
GrowWithInner(base, addition, vals, panicAt) ==
    LET done == IF panicAt = NoPanic THEN addition ELSE panicAt
        writes == [i \in 1 .. done |-> <<"write", base + i>>]
    IN  [ panicked |-> panicAt # NoPanic,
          slots    |-> Prefix(vals, done),
          created  |-> Prefix(vals, done),
          clones   |-> 0,
          events   |-> IF panicAt = NoPanic THEN writes
                       ELSE writes \o <<<<"call_panics", base + panicAt + 1>>>>
                                   \o GuardDrop(base, done),
          dropped  |-> IF panicAt = NoPanic THEN <<>>
                       ELSE [i \in 1 .. Len(GuardDrop(base, done)) |->
                                vals[GuardDrop(base, done)[i][2] - base]] ]

\* variant of SpecFill::fill that clones val into every slot and then drops
\* the original
SpecFillClonesAll(base, addition, val, panicAt) ==
    LET done == IF panicAt = NoPanic THEN addition ELSE panicAt
        writes == [i \in 1 .. done |-> <<"write", base + i>>]
    IN  IF panicAt # NoPanic
        THEN [ panicked |-> TRUE,
               slots    |-> Repeat(done, val),
               created  |-> Repeat(done, val),
               clones   |-> done,
               events   |-> writes \o <<<<"call_panics", base + done + 1>>>>
                                   \o GuardDrop(base, done)
                                   \o <<<<"drop_value", 0>>>>,
               dropped  |-> Repeat(Len(GuardDrop(base, done)), val) \o <<val>> ]
        ELSE [ panicked |-> FALSE,
               slots    |-> Repeat(addition, val),
               created  |-> Repeat(addition, val),
               clones   |-> addition,
               events   |-> writes \o <<<<"drop_value", 0>>>>,
               dropped  |-> <<val>> ]

\* SpecFill::fill, default (non-Copy) impl: clone val into all slots but the
\* last, move val into the last; clone number panicAt (0-based) may panic,
\* which unwinds through the Guard and then drops val
SpecFill(base, addition, val, panicAt) ==
    LET nclones == IF addition = 0 THEN 0 ELSE addition - 1
        done == IF panicAt = NoPanic THEN nclones ELSE panicAt
        writes == [i \in 1 .. done |-> <<"write", base + i>>]
    IN  IF panicAt # NoPanic
        THEN [ panicked |-> TRUE,
               slots    |-> Repeat(done, val),
               created  |-> Repeat(done, val),
               clones   |-> done,
               events   |-> writes \o <<<<"call_panics", base + done + 1>>>>
                                   \o GuardDrop(base, done)
                                   \o <<<<"drop_value", 0>>>>,
               dropped  |-> Repeat(Len(GuardDrop(base, done)), val) \o <<val>> ]
        ELSE IF addition = 0
        THEN [ panicked |-> FALSE,
               slots    |-> <<>>,
               created  |-> <<>>,
               clones   |-> 0,
               events   |-> <<<<"drop_value", 0>>>>,
               dropped  |-> <<val>> ]
        ELSE [ panicked |-> FALSE,
               slots    |-> Repeat(addition, val),
               created  |-> Repeat(nclones, val),
               clones   |-> nclones,
               events   |-> writes \o <<<<"write", base + addition>>>>,
               dropped  |-> <<>> ]

\* variant of handle_fill that rolls back: a panic leaves self with the new
\* pointer and the old capacity, and nothing of the old range is destroyed
HandleFillKeepsGuard(self, cells, ptr, cap, fill) ==
    IF fill.panicked
    THEN [ place   |-> [ptr |-> ptr, cap |-> self.cap],
           cells   |-> Prefix(cells, self.cap),
           events  |-> fill.events,
           dropped |-> fill.dropped ]
    ELSE [ place   |-> [ptr |-> ptr, cap |-> cap],
           cells   |-> Prefix(cells, self.cap) \o fill.slots,
           events  |-> fill.events,
           dropped |-> fill.dropped ]

\* variant of handle_fill that puts the guard back without publishing cap
HandleFillStaleCap(self, cells, ptr, cap, fill) ==
    IF fill.panicked
    THEN [ place   |-> Dangling,
           cells   |-> <<>>,
           events  |-> fill.events \o RawPlaceDrop([ptr |-> ptr, cap |-> self.cap]),
           dropped |-> fill.dropped
                       \o EventValues(cells, RawPlaceDrop([ptr |-> ptr, cap |-> self.cap])) ]
    ELSE [ place   |-> [ptr |-> ptr, cap |-> self.cap],
           cells   |-> Prefix(cells, self.cap) \o fill.slots,
           events  |-> fill.events,
           dropped |-> fill.dropped ]

\* variant of handle_fill that hands fill the front of the block, so that
\* the new values come before the old elements
HandleFillFront(self, cells, ptr, cap, fill) ==
    IF fill.panicked
    THEN [ place   |-> Dangling,
           cells   |-> <<>>,
           events  |-> fill.events \o RawPlaceDrop([ptr |-> ptr, cap |-> self.cap]),
           dropped |-> fill.dropped
                       \o EventValues(cells, RawPlaceDrop([ptr |-> ptr, cap |-> self.cap])) ]
    ELSE [ place   |-> [ptr |-> ptr, cap |-> cap],
           cells   |-> fill.slots \o Prefix(cells, self.cap),
           events  |-> fill.events,
           dropped |-> fill.dropped ]

\* RawPlace::handle_fill: self takes the new pointer, is moved into a local
\* guard (old capacity) and left dangling while fill runs; a panic of fill
\* drops the guard, a return puts the guard back and publishes cap
HandleFill(self, cells, ptr, cap, fill) ==
    LET guard == [ptr |-> ptr, cap |-> self.cap]
    IN  IF fill.panicked
        THEN [ place   |-> Dangling,
               cells   |-> <<>>,
               events  |-> fill.events \o RawPlaceDrop(guard),
               dropped |-> fill.dropped \o EventValues(cells, RawPlaceDrop(guard)) ]
        ELSE [ place   |-> [ptr |-> guard.ptr, cap |-> cap],
               cells   |-> Prefix(cells, guard.cap) \o fill.slots,
               events  |-> fill.events,
               dropped |-> fill.dropped ]

\* ---------------------------------------------------------------- heap backend
\* Alloc::grow up to the call of handle_fill: checked_add of the capacity,
\* Layout::array of the new capacity, allocate / grow of the allocator
AllocGrowCheck(cap0, addition, allocOk) ==
    IF cap0 + addition > UsizeMax THEN "CapacityOverflow"
    ELSE IF (cap0 + addition) * ItemSize > IsizeMax THEN "CapacityOverflow"
    ELSE IF ~allocOk THEN "AllocError"
    ELSE "Ok"

HeapInit ==
    /\ hPlace = Dangling
    /\ hCells = <<>>
    /\ hStrong = [v \in Values |-> 1]
    /\ hAlive = TRUE
    /\ hLedger = 0
    /\ hSince = 0
    /\ hPanics = 0
    /\ hLast = [op |-> "new", arg |-> 0, val |-> 0, panicAt |-> NoPanic,
                res |-> "Ok", preCap |-> 0, preCells |-> <<>>,
                preStrong |-> [v \in Values |-> 1], events |-> <<>>, clones |-> 0]

\* the part of a heap grow shared by grow_with and grow_filled: `passed` are
\* the values the caller moved into the call, fill the initializer's outcome
HeapGrow(op, addition, val, panicAt, passed, fill, check) ==
    LET cap == hPlace.cap + addition
        r == HandleFill(hPlace, hCells, "block", cap, fill)
    IN  /\ hAlive
        /\ IF check # "Ok"
           THEN /\ UNCHANGED <<hPlace, hCells, hLedger, hSince, hPanics>>
                /\ hStrong' = Destroy(Create(hStrong, passed), passed)
                /\ hLast' = [op |-> op, arg |-> addition, val |-> val,
                             panicAt |-> NoPanic, res |-> check,
                             preCap |-> hPlace.cap, preCells |-> hCells,
                             preStrong |-> hStrong, events |-> <<>>, clones |-> 0]
           ELSE /\ cap <= MaxCap
                /\ fill.panicked => hPanics < MaxPanics
                /\ hPlace' = r.place
                /\ hCells' = r.cells
                /\ hStrong' = Destroy(Create(hStrong, passed \o fill.created), r.dropped)
                /\ hLedger' = IF fill.panicked THEN hLedger ELSE hLedger + addition
                /\ hSince' = IF fill.panicked THEN 0 ELSE hSince + addition
                /\ hPanics' = IF fill.panicked THEN hPanics + 1 ELSE hPanics
                /\ hLast' = [op |-> op, arg |-> addition, val |-> val,
                             panicAt |-> panicAt,
                             res |-> IF fill.panicked THEN "panic" ELSE "Ok",
                             preCap |-> hPlace.cap, preCells |-> hCells,
                             preStrong |-> hStrong,
                             events |-> <<<<"alloc", cap>>>> \o r.events,
                             clones |-> fill.clones]

\* RawMem::grow_with on the heap block
HeapGrowWith(addition, vals, panicAt, allocOk) ==
    HeapGrow("grow_with", addition, vals, panicAt, <<>>,
             GrowWithInner(hPlace.cap, addition, vals, panicAt),
             AllocGrowCheck(hPlace.cap, addition, allocOk))

\* RawMem::grow_filled on the heap block, items that are Clone but not Copy
HeapGrowFilled(addition, val, panicAt, allocOk) ==
    HeapGrow("grow_filled", addition, val, panicAt, <<val>>,
             SpecFill(hPlace.cap, addition, val, panicAt),
             AllocGrowCheck(hPlace.cap, addition, allocOk))

\* the outcome of a checked_sub(..).expect(..) that panics
ShrinkPanics == 0 - 1

\* variant of the capacity test of shrink that clamps at zero
CheckedShrinkSaturating(cap, count) == IF count > cap THEN 0 ELSE cap - count

\* cap.checked_sub(count).expect("Tried to shrink to a larger capacity")
CheckedShrink(cap, count) == IF count > cap THEN ShrinkPanics ELSE cap - count

\* Alloc::shrink: a count above the capacity panics; otherwise the trailing
\* count elements are destroyed and then the allocator shrinks the block
HeapShrink(count) ==
    LET cap == CheckedShrink(hPlace.cap, count)
    IN  /\ hAlive
        /\ IF cap = ShrinkPanics
           THEN /\ UNCHANGED <<hPlace, hCells, hStrong, hLedger, hSince, hPanics>>
                /\ hLast' = [op |-> "shrink", arg |-> count, val |-> 0,
                             panicAt |-> NoPanic, res |-> "panic",
                             preCap |-> hPlace.cap, preCells |-> hCells,
                             preStrong |-> hStrong, events |-> <<>>, clones |-> 0]
           ELSE /\ hPlace' = [hPlace EXCEPT !.cap = cap]
                /\ hCells' = Prefix(hCells, cap)
                /\ hStrong' = Destroy(hStrong, SubSeq(hCells, cap + 1, hPlace.cap))
                /\ hLedger' = hLedger - count
                /\ hSince' = hSince - count
                /\ UNCHANGED hPanics
                /\ hLast' = [op |-> "shrink", arg |-> count, val |-> 0,
                             panicAt |-> NoPanic, res |-> "Ok",
                             preCap |-> hPlace.cap, preCells |-> hCells,
                             preStrong |-> hStrong,
                             events |-> DropEvents(cap + 1, hPlace.cap)
                                        \o (IF hPlace.cap = 0 THEN <<>>
                                            ELSE <<<<"shrink_store", cap>>>>),
                             clones |-> 0]

\* drop of the heap handle: the elements [0, cap) are destroyed by the
\* RawPlace, then the block is given back to the allocator
HeapDrop ==
    /\ hAlive
    /\ hAlive' = FALSE
    /\ hPlace' = Dangling
    /\ hCells' = <<>>
    /\ hStrong' = Destroy(hStrong, EventValues(hCells, RawPlaceDrop(hPlace)))
    /\ UNCHANGED <<hLedger, hSince, hPanics>>
    /\ hLast' = [op |-> "drop", arg |-> 0, val |-> 0, panicAt |-> NoPanic,
                 res |-> "Ok", preCap |-> hPlace.cap, preCells |-> hCells,
                 preStrong |-> hStrong,
                 events |-> RawPlaceDrop(hPlace)
                            \o (IF hPlace.cap = 0 THEN <<>> ELSE <<<<"dealloc", 0>>>>),
                 clones |-> 0]

PanicPoints(n) == (0 .. (n - 1)) \cup {NoPanic}

HeapGrowWithStep ==
    \E addition \in Amounts, allocOk \in BOOLEAN :
        \E vals \in [1 .. (IF addition > MaxGrow THEN 0 ELSE addition) -> Values],
           panicAt \in PanicPoints(IF addition > MaxGrow THEN 0 ELSE addition) :
            /\ HeapGrowWith(addition, vals, panicAt, allocOk)
            /\ UNCHANGED hAlive

HeapGrowFilledStep ==
    \E addition \in Amounts, allocOk \in BOOLEAN, val \in Values :
        \E panicAt \in PanicPoints(IF addition > MaxGrow THEN 0 ELSE addition - 1) :
            /\ HeapGrowFilled(addition, val, panicAt, allocOk)
            /\ UNCHANGED hAlive

HeapShrinkStep ==
    \E count \in Amounts : HeapShrink(count) /\ UNCHANGED hAlive

HeapNext ==
    \/ HeapGrowWithStep
    \/ HeapGrowFilledStep
    \/ HeapShrinkStep
    \/ HeapDrop


\* ---------------------------------------------------------------- fixed buffer
\* variant of PreAlloc::grow that reports the two fields of OverAlloc swapped
PreAllocGrowSwapped(place, used, addition, fill) ==
    LET cap == used + addition
        available == Len(place)
    IN  IF cap > UsizeMax
        THEN [res |-> "CapacityOverflow", place |-> place, used |-> used,
              available |-> 0, toAlloc |-> 0, ret |-> <<>>]
        ELSE IF cap <= available
        THEN IF fill.panicked
             THEN [res |-> "panic",
                   place |-> [i \in 1 .. Len(place) |->
                                 IF i > used /\ i <= used + Len(fill.slots)
                                 THEN fill.slots[i - used] ELSE place[i]],
                   used |-> used, available |-> 0, toAlloc |-> 0, ret |-> <<>>]
             ELSE [res |-> "Ok",
                   place |-> [i \in 1 .. Len(place) |->
                                 IF i > used /\ i <= cap
                                 THEN fill.slots[i - used] ELSE place[i]],
                   used |-> cap, available |-> 0, toAlloc |-> 0,
                   ret |-> fill.slots]
        ELSE [res |-> "OverAlloc", place |-> place, used |-> used,
              available |-> cap, toAlloc |-> available, ret |-> <<>>]

\* variant of PreAlloc::grow that, when the range does not fit, hands out
\* what is left of the buffer before it reports OverAlloc
PreAllocGrowClamps(place, used, addition, fill) ==
    LET cap == used + addition
        available == Len(place)
    IN  IF cap > UsizeMax
        THEN [res |-> "CapacityOverflow", place |-> place, used |-> used,
              available |-> 0, toAlloc |-> 0, ret |-> <<>>]
        ELSE IF cap <= available
        THEN IF fill.panicked
             THEN [res |-> "panic",
                   place |-> [i \in 1 .. Len(place) |->
                                 IF i > used /\ i <= used + Len(fill.slots)
                                 THEN fill.slots[i - used] ELSE place[i]],
                   used |-> used, available |-> 0, toAlloc |-> 0, ret |-> <<>>]
             ELSE [res |-> "Ok",
                   place |-> [i \in 1 .. Len(place) |->
                                 IF i > used /\ i <= cap
                                 THEN fill.slots[i - used] ELSE place[i]],
                   used |-> cap, available |-> 0, toAlloc |-> 0,
                   ret |-> fill.slots]
        ELSE [res |-> "OverAlloc", place |-> place, used |-> available,
              available |-> available, toAlloc |-> cap, ret |-> <<>>]

\* PreAlloc::grow: checked_add of used and addition, place.get_mut(used..cap),
\* fill over that sub-slice, then used = cap; OverAlloc when the range does
\* not fit the buffer
PreAllocGrow(place, used, addition, fill) ==
    LET cap == used + addition
        available == Len(place)
    IN  IF cap > UsizeMax
        THEN [res |-> "CapacityOverflow", place |-> place, used |-> used,
              available |-> 0, toAlloc |-> 0, ret |-> <<>>]
        ELSE IF cap <= available
        THEN IF fill.panicked
             THEN [res |-> "panic",
                   place |-> [i \in 1 .. Len(place) |->
                                 IF i > used /\ i <= used + Len(fill.slots)
                                 THEN fill.slots[i - used] ELSE place[i]],
                   used |-> used, available |-> 0, toAlloc |-> 0, ret |-> <<>>]
             ELSE [res |-> "Ok",
                   place |-> [i \in 1 .. Len(place) |->
                                 IF i > used /\ i <= cap
                                 THEN fill.slots[i - used] ELSE place[i]],
                   used |-> cap, available |-> 0, toAlloc |-> 0,
                   ret |-> fill.slots]
        ELSE [res |-> "OverAlloc", place |-> place, used |-> used,
              available |-> available, toAlloc |-> cap, ret |-> <<>>]

\* the outcome of an initializer that is never run (the grow fails first)
NotRun == [panicked |-> FALSE, slots |-> <<>>]

\* PreAlloc::allocated: place[..used]
PreAllocated == Prefix(pPlace, pUsed)

\* variant of alloc that sets the cursor before it looks at the buffer
OldAllocUnchecked(data, allocated, capacity) ==
    IF capacity <= Len(data)
    THEN [res |-> "Ok", allocated |-> capacity, available |-> 0, toAlloc |-> 0]
    ELSE [res |-> "OverAlloc", allocated |-> capacity,
          available |-> Len(data), toAlloc |-> capacity]

\* alloc of PreAlloc<T, D>: data.get_mut(0..capacity), allocated = capacity
\* when the range fits, OverAlloc otherwise
OldAlloc(data, allocated, capacity) ==
    IF capacity <= Len(data)
    THEN [res |-> "Ok", allocated |-> capacity, available |-> 0, toAlloc |-> 0]
    ELSE [res |-> "OverAlloc", allocated |-> allocated,
          available |-> Len(data), toAlloc |-> capacity]

\* variant of the provided grow that adds with wrap-around (wrapping_add)
OldGrowWrapping(data, allocated, capacity) ==
    OldAlloc(data, allocated, (allocated + capacity) % (UsizeMax + 1))

\* RawMem<T>::grow of the alloc-based trait: allocated().checked_add, alloc
OldGrow(data, allocated, capacity) ==
    IF allocated + capacity > UsizeMax
    THEN [res |-> "CapacityOverflow", allocated |-> allocated,
          available |-> 0, toAlloc |-> 0]
    ELSE OldAlloc(data, allocated, allocated + capacity)

\* variant of the provided shrink that saturates at zero (saturating_sub)
OldShrinkSaturating(data, allocated, capacity) ==
    OldAlloc(data, allocated, IF capacity > allocated THEN 0 ELSE allocated - capacity)

\* RawMem<T>::shrink of the alloc-based trait: allocated().checked_sub, alloc
OldShrink(data, allocated, capacity) ==
    IF allocated - capacity < 0
    THEN [res |-> "CapacityOverflow", allocated |-> allocated,
          available |-> 0, toAlloc |-> 0]
    ELSE OldAlloc(data, allocated, allocated - capacity)

\* variant of size_hint that subtracts the capacity in use
OldSizeHintRemaining == Len(bData) - bAllocated

\* PreAlloc::size_hint of the alloc-based trait: the length of data
OldSizeHint == Len(bData)

\* PreAlloc::new over a buffer of len default items (value 0)
PreNew(kind, len) ==
    /\ pKind = kind
    /\ pPlace = Repeat(len, 0)
    /\ pUsed = 0
    /\ pLast = [op |-> "new", arg |-> 0, val |-> 0, panicAt |-> NoPanic,
                res |-> "Ok", available |-> 0, toAlloc |-> 0,
                preUsed |-> 0, prePlace |-> Repeat(len, 0), ret |-> <<>>]
    /\ bData = Repeat(len, 0)
    /\ bAllocated = 0
    /\ bOccupied = 0
    /\ bLast = [op |-> "new", arg |-> 0, res |-> "Ok", available |-> 0,
                toAlloc |-> 0, preAllocated |-> 0, preOccupied |-> 0]

PreInit == \E kind \in {"fill", "alloc"}, len \in 0 .. MaxBuf : PreNew(kind, len)

PreGrow(op, addition, val, panicAt, fill) ==
    LET r == PreAllocGrow(pPlace, pUsed, addition,
                          IF pUsed + addition <= Len(pPlace) THEN fill ELSE NotRun)
    IN  /\ pKind = "fill"
        /\ pPlace' = r.place
        /\ pUsed' = r.used
        /\ pLast' = [op |-> op, arg |-> addition, val |-> val,
                     panicAt |-> IF r.res = "panic" THEN panicAt ELSE NoPanic,
                     res |-> r.res, available |-> r.available,
                     toAlloc |-> r.toAlloc, preUsed |-> pUsed,
                     prePlace |-> pPlace, ret |-> r.ret]
        /\ UNCHANGED <<pKind, bData, bAllocated, bOccupied, bLast>>

\* RawMem::grow_with on a PreAlloc
PreGrowWith ==
    \E addition \in Amounts :
        \E vals \in [1 .. (IF addition > MaxGrow THEN 0 ELSE addition) -> Values],
           panicAt \in PanicPoints(IF addition > MaxGrow THEN 0 ELSE addition) :
            PreGrow("grow_with", addition, vals, panicAt,
                    GrowWithInner(pUsed, addition, vals, panicAt))

\* RawMem::grow_filled on a PreAlloc
PreGrowFilled ==
    \E addition \in Amounts, val \in Values :
        \E panicAt \in PanicPoints(IF addition > MaxGrow THEN 0 ELSE addition - 1) :
            PreGrow("grow_filled", addition, val, panicAt,
                    SpecFill(pUsed, addition, val, panicAt))

\* RawMem::grow_zeroed on a PreAlloc: the initializer writes zero bytes over
\* the whole new region and cannot panic
PreGrowZeroed ==
    \E addition \in Amounts :
        PreGrow("grow_zeroed", addition, 0, NoPanic,
                [panicked |-> FALSE,
                 slots |-> Repeat(IF addition > MaxGrow THEN 0 ELSE addition,
                                  Zeroed(ItemSize))])

\* PreAlloc::shrink: todo!(), which panics whatever the argument
PreShrink ==
    \E count \in Amounts :
        /\ pKind = "fill"
        /\ pLast' = [op |-> "shrink", arg |-> count, val |-> 0,
                     panicAt |-> NoPanic, res |-> "panic", available |-> 0,
                     toAlloc |-> 0, preUsed |-> pUsed, prePlace |-> pPlace,
                     ret |-> <<>>]
        /\ UNCHANGED <<pKind, pPlace, pUsed, bData, bAllocated, bOccupied, bLast>>

OldStep(op, capacity, r) ==
    /\ pKind = "alloc"
    /\ bAllocated' = r.allocated
    /\ bLast' = [op |-> op, arg |-> capacity, res |-> r.res,
                 available |-> r.available, toAlloc |-> r.toAlloc,
                 preAllocated |-> bAllocated, preOccupied |-> bOccupied]
    /\ UNCHANGED <<pKind, pPlace, pUsed, pLast, bData, bOccupied>>

\* alloc / grow / shrink of the alloc-based trait on a PreAlloc<T, D>
OldAllocStep ==
    \E capacity \in Amounts : OldStep("alloc", capacity, OldAlloc(bData, bAllocated, capacity))

OldGrowStep ==
    \E capacity \in Amounts : OldStep("grow", capacity, OldGrow(bData, bAllocated, capacity))

OldShrinkStep ==
    \E capacity \in Amounts : OldStep("shrink", capacity, OldShrink(bData, bAllocated, capacity))

\* PreAlloc::occupy of the alloc-based trait
OldOccupyStep ==
    \E capacity \in Amounts :
        /\ pKind = "alloc"
        /\ bOccupied' = IF capacity > bAllocated THEN bOccupied ELSE capacity
        /\ bLast' = [op |-> "occupy", arg |-> capacity,
                     res |-> IF capacity > bAllocated THEN "OverOccupy" ELSE "Ok",
                     available |-> 0, toAlloc |-> 0,
                     preAllocated |-> bAllocated, preOccupied |-> bOccupied]
        /\ UNCHANGED <<pKind, pPlace, pUsed, pLast, bData, bAllocated>>

PreNext ==
    \/ PreGrowWith
    \/ PreGrowFilled
    \/ PreGrowZeroed
    \/ PreShrink
    \/ OldAllocStep
    \/ OldGrowStep
    \/ OldShrinkStep
    \/ OldOccupyStep


\* ---------------------------------------------------------------- async file
Slots == {1, 2}
\* TempPath is temp_dir()/platform_mem_async_{process id}.tmp
TempPath == "tmp"
Paths == {"data", TempPath}
ElemSizes == {0, 2}
\* the item values told apart for an item of `size` bytes; 0 is T::default()
ItemsOf(size) == IF size = 0 THEN {0} ELSE {0, 258}

\* the `size` bytes of item v in memory order (little endian)
Encode(v, size) == [i \in 1 .. size |-> (v \div (256 ^ (i - 1))) % 256]

\* sync / flush: slice::from_raw_parts(buffer as *const u8, len * size_of::<T>())
Serialize(buf, size) ==
    [k \in 1 .. (Len(buf) * size) |->
        Encode(buf[((k - 1) \div size) + 1], size)[((k - 1) % size) + 1]]

\* variant of open that reads every item but the last one
LoadShort(bytes, size) ==
    IF Len(bytes) > 0 /\ size > 0
    THEN [j \in 1 .. ((Len(bytes) \div size) - 1) |->
             Decode(SubSeq(bytes, (j - 1) * size + 1, j * size))]
    ELSE <<>>

\* open: file_size / elem_size items are read from the bytes of the file;
\* nothing is read when the file is empty or the item has no bytes
Load(bytes, size) ==
    IF Len(bytes) > 0 /\ size > 0
    THEN [j \in 1 .. (Len(bytes) \div size) |->
             Decode(SubSeq(bytes, (j - 1) * size + 1, j * size))]
    ELSE <<>>

NoFile == [exists |-> FALSE, bytes |-> <<>>]
NoHandle == [live |-> FALSE, buffer |-> <<>>, path |-> TempPath, dirty |-> FALSE,
             pc |-> "idle", job |-> "none"]
NotSynced == [valid |-> FALSE, job |-> "none", buf |-> <<>>]

AsyncNew(ids, paths, size) ==
    /\ aIds = ids
    /\ aPaths = paths
    /\ aElemSize = size
    /\ aMem = [h \in Slots |-> NoHandle]
    /\ aFs = [p \in Paths |-> NoFile]
    /\ aSynced = [p \in Paths |-> NotSynced]
    /\ aLast = [h |-> 0, op |-> "none", arg |-> 0, val |-> 0, res |-> "Ok",
                preBuffer |-> <<>>, preDirty |-> FALSE]

AsyncInit == \E size \in ElemSizes, p \in Paths : AsyncNew({1}, {p}, size)

Idle(h) == h \in aIds /\ aMem[h].live /\ aMem[h].pc = "idle"

ALastOf(h, op, arg, res) ==
    [h |-> h, op |-> op, arg |-> arg, val |-> 0, items |-> <<>>, res |-> res,
     preBuffer |-> aMem[h].buffer, preDirty |-> aMem[h].dirty]

\* variant of a mutator that forgets to set the flag
MarkDirtyKeeps(dirty) == dirty

\* the mutators' `self.dirty = true`
MarkDirty(dirty) == TRUE

\* variant of sync / flush that clears the flag whatever the I/O result
DirtyAfterPersistAlways(dirty, ioOk) == FALSE

\* sync / flush: `self.dirty = false` is reached only past the three `?`
DirtyAfterPersist(dirty, ioOk) == IF ioOk THEN FALSE ELSE dirty

\* AsyncFileMem::create: the file is created or truncated, the buffer is empty
ACreate ==
    \E h \in aIds, p \in aPaths, ioOk \in BOOLEAN :
        /\ ~aMem[h].live
        /\ IF ioOk
           THEN /\ aFs' = [aFs EXCEPT ![p] = [exists |-> TRUE, bytes |-> <<>>]]
                /\ aSynced' = [aSynced EXCEPT ![p] = NotSynced]
                /\ aMem' = [aMem EXCEPT ![h] = [live |-> TRUE, buffer |-> <<>>,
                               path |-> p, dirty |-> FALSE, pc |-> "idle",
                               job |-> "none"]]
           ELSE UNCHANGED <<aFs, aSynced, aMem>>
        /\ aLast' = ALastOf(h, "create", p, IF ioOk THEN "Ok" ELSE "Io")
        /\ UNCHANGED <<aIds, aPaths, aElemSize>>

\* AsyncFileMem::temp: create at TempPath
ATemp ==
    \E h \in aIds, ioOk \in BOOLEAN :
        /\ TempPath \in aPaths
        /\ ~aMem[h].live
        /\ IF ioOk
           THEN /\ aFs' = [aFs EXCEPT ![TempPath] = [exists |-> TRUE, bytes |-> <<>>]]
                /\ aSynced' = [aSynced EXCEPT ![TempPath] = NotSynced]
                /\ aMem' = [aMem EXCEPT ![h] = [live |-> TRUE, buffer |-> <<>>,
                               path |-> TempPath, dirty |-> FALSE, pc |-> "idle",
                               job |-> "none"]]
           ELSE UNCHANGED <<aFs, aSynced, aMem>>
        /\ aLast' = ALastOf(h, "temp", TempPath, IF ioOk THEN "Ok" ELSE "Io")
        /\ UNCHANGED <<aIds, aPaths, aElemSize>>

\* AsyncFileMem::open: the file must exist; its content is loaded
AOpen ==
    \E h \in aIds, p \in aPaths, ioOk \in BOOLEAN :
        /\ ~aMem[h].live
        /\ IF ioOk /\ aFs[p].exists
           THEN aMem' = [aMem EXCEPT ![h] = [live |-> TRUE,
                            buffer |-> Load(aFs[p].bytes, aElemSize),
                            path |-> p, dirty |-> FALSE, pc |-> "idle",
                            job |-> "none"]]
           ELSE UNCHANGED aMem
        /\ aLast' = ALastOf(h, "open", p,
                            IF ioOk /\ aFs[p].exists THEN "Ok" ELSE "Io")
        /\ UNCHANGED <<aIds, aPaths, aElemSize, aFs, aSynced>>

\* variant of the Vec growth that appends the new items last to first
VecExtendReversed(buffer, items) ==
    buffer \o [i \in 1 .. Len(items) |-> items[Len(items) + 1 - i]]

\* Vec::resize / push in a loop / extend_from_slice: the new items follow the
\* old ones in the order they are produced
VecExtend(buffer, items) == buffer \o items

\* the checks every grow* makes first: checked_add of the lengths, Layout::array
AGrowCheck(len, addition) ==
    IF len + addition > UsizeMax THEN "CapacityOverflow"
    ELSE IF (len + addition) * aElemSize > IsizeMax THEN "CapacityOverflow"
    ELSE "Ok"

\* grow_filled / grow_with / grow_zeroed / grow_from_slice: the new items are
\* appended to the buffer and the block is marked dirty
AGrowOp(h, op, addition, val, items) ==
    LET check == AGrowCheck(Len(aMem[h].buffer), addition)
    IN  /\ Idle(h)
        /\ IF check = "Ok"
           THEN /\ Len(aMem[h].buffer) + addition <= MaxLen
                /\ aMem' = [aMem EXCEPT ![h].buffer = VecExtend(@, items), ![h].dirty = MarkDirty(@)]
           ELSE UNCHANGED aMem
        /\ aLast' = [ALastOf(h, op, addition, check) EXCEPT !.val = val, !.items = items]
        /\ UNCHANGED <<aIds, aPaths, aElemSize, aFs, aSynced>>

AGrowFilled ==
    \E h \in aIds, addition \in Amounts, value \in ItemsOf(aElemSize) :
        AGrowOp(h, "grow_filled", addition, value,
                Repeat(IF addition > MaxLen THEN 0 ELSE addition, value))

AGrowWith ==
    \E h \in aIds, addition \in Amounts :
        \E vals \in [1 .. (IF addition > MaxLen THEN 0 ELSE addition) -> ItemsOf(aElemSize)] :
            AGrowOp(h, "grow_with", addition, 0, vals)

AGrowZeroed ==
    \E h \in aIds, addition \in Amounts :
        AGrowOp(h, "grow_zeroed", addition, 0,
                Repeat(IF addition > MaxLen THEN 0 ELSE addition, Zeroed(aElemSize)))

AGrowFromSlice ==
    \E h \in aIds, n \in 0 .. MaxLen :
        \E src \in [1 .. n -> ItemsOf(aElemSize)] :
            AGrowOp(h, "grow_from_slice", n, 0, src)

\* variant of the new length that keeps the buffer when count exceeds it
ShrunkLenKeeps(len, count) == IF count > len THEN len ELSE len - count

\* shrink: self.buffer.len().saturating_sub(count)
ShrunkLen(len, count) == IF count > len THEN 0 ELSE len - count

\* AsyncFileMem::shrink: truncate to len.saturating_sub(count), mark dirty
AShrink ==
    \E h \in aIds, count \in Amounts :
        LET len == Len(aMem[h].buffer)
            newLen == ShrunkLen(len, count)
        IN  /\ Idle(h)
            /\ aMem' = [aMem EXCEPT ![h].buffer = Prefix(@, newLen), ![h].dirty = MarkDirty(@)]
            /\ aLast' = ALastOf(h, "shrink", count, "Ok")
            /\ UNCHANGED <<aIds, aPaths, aElemSize, aFs, aSynced>>

\* variant of set that marks the block dirty before it tests the index
ASetMarksFirst ==
    \E h \in aIds, index \in 0 .. MaxLen, value \in ItemsOf(aElemSize) :
        /\ Idle(h)
        /\ IF index < Len(aMem[h].buffer)
           THEN aMem' = [aMem EXCEPT ![h].buffer[index + 1] = value, ![h].dirty = TRUE]
           ELSE aMem' = [aMem EXCEPT ![h].dirty = TRUE]
        /\ aLast' = [ALastOf(h, "set", index,
                               IF index < Len(aMem[h].buffer) THEN "Some" ELSE "None")
                      EXCEPT !.val = value]
        /\ UNCHANGED <<aIds, aPaths, aElemSize, aFs, aSynced>>

\* AsyncFileMem::set: in range the item is stored and the block is dirty
ASet ==
    \E h \in aIds, index \in 0 .. MaxLen, value \in ItemsOf(aElemSize) :
        /\ Idle(h)
        /\ IF index < Len(aMem[h].buffer)
           THEN aMem' = [aMem EXCEPT ![h].buffer[index + 1] = value, ![h].dirty = MarkDirty(@)]
           ELSE UNCHANGED aMem
        /\ aLast' = [ALastOf(h, "set", index,
                               IF index < Len(aMem[h].buffer) THEN "Some" ELSE "None")
                      EXCEPT !.val = value]
        /\ UNCHANGED <<aIds, aPaths, aElemSize, aFs, aSynced>>

\* AsyncFileMem::as_slice_mut: the block is marked dirty
AAsSliceMut ==
    \E h \in aIds :
        /\ Idle(h)
        /\ aMem' = [aMem EXCEPT ![h].dirty = MarkDirty(@)]
        /\ aLast' = ALastOf(h, "as_slice_mut", 0, "Ok")
        /\ UNCHANGED <<aIds, aPaths, aElemSize, aFs, aSynced>>

\* sync / flush, first await: OpenOptions write + truncate (no create) open
APersistOpen ==
    \E h \in aIds, job \in {"sync", "flush"}, ioOk \in BOOLEAN :
        LET p == aMem[h].path
            ok == ioOk /\ aFs[p].exists
        IN  /\ Idle(h)
            /\ IF ok
               THEN /\ aFs' = [aFs EXCEPT ![p].bytes = <<>>]
                    /\ aSynced' = [aSynced EXCEPT ![p] = NotSynced]
                    /\ aMem' = [aMem EXCEPT ![h].pc = "opened", ![h].job = job]
               ELSE UNCHANGED <<aFs, aSynced, aMem>>
            /\ aLast' = ALastOf(h, job, 1, IF ok THEN "Pending" ELSE "Io")
            /\ UNCHANGED <<aIds, aPaths, aElemSize>>

\* variant of the second await that clears the dirty flag as soon as the
\* bytes are written, before the sync_all / flush request
APersistWriteClears ==
    \E h \in aIds, ioOk \in BOOLEAN :
        LET p == aMem[h].path
            bytes == Serialize(aMem[h].buffer, aElemSize)
        IN  /\ h \in aIds /\ aMem[h].live /\ aMem[h].pc = "opened"
            /\ aFs[p].exists
            /\ IF ioOk
               THEN /\ aFs' = [aFs EXCEPT ![p].bytes = bytes \o SubSeq(@, Len(bytes) + 1, Len(@))]
                    /\ aMem' = [aMem EXCEPT ![h].pc = "written", ![h].dirty = FALSE]
               ELSE /\ \E k \in 0 .. Len(bytes) :
                         /\ k < Len(bytes) \/ Len(bytes) = 0
                         /\ aFs' = [aFs EXCEPT ![p].bytes =
                                       Prefix(bytes, k) \o SubSeq(@, k + 1, Len(@))]
                    /\ aMem' = [aMem EXCEPT ![h].pc = "idle", ![h].job = "none"]
            /\ aLast' = ALastOf(h, aMem[h].job, 2, IF ioOk THEN "Pending" ELSE "Io")
            /\ UNCHANGED <<aIds, aPaths, aElemSize, aSynced>>

\* sync / flush, second await: write_all of the bytes of the buffer; a
\* failure leaves a strict prefix of them in the file
APersistWrite ==
    \E h \in aIds, ioOk \in BOOLEAN :
        LET p == aMem[h].path
            bytes == Serialize(aMem[h].buffer, aElemSize)
        IN  /\ h \in aIds /\ aMem[h].live /\ aMem[h].pc = "opened"
            /\ aFs[p].exists
            /\ IF ioOk
               THEN /\ aFs' = [aFs EXCEPT ![p].bytes = bytes \o SubSeq(@, Len(bytes) + 1, Len(@))]
                    /\ aMem' = [aMem EXCEPT ![h].pc = "written"]
               ELSE /\ \E k \in 0 .. Len(bytes) :
                         /\ k < Len(bytes) \/ Len(bytes) = 0
                         /\ aFs' = [aFs EXCEPT ![p].bytes =
                                       Prefix(bytes, k) \o SubSeq(@, k + 1, Len(@))]
                    /\ aMem' = [aMem EXCEPT ![h].pc = "idle", ![h].job = "none"]
            /\ aLast' = ALastOf(h, aMem[h].job, 2, IF ioOk THEN "Pending" ELSE "Io")
            /\ UNCHANGED <<aIds, aPaths, aElemSize, aSynced>>

\* sync / flush, third await: sync_all (sync) or flush (flush), then the
\* dirty flag is cleared
APersistFinish ==
    \E h \in aIds, ioOk \in BOOLEAN :
        LET p == aMem[h].path
        IN  /\ h \in aIds /\ aMem[h].live /\ aMem[h].pc = "written"
            /\ IF ioOk
               THEN /\ aMem' = [aMem EXCEPT ![h].pc = "idle", ![h].job = "none",
                                            ![h].dirty = DirtyAfterPersist(@, ioOk)]
                    /\ aSynced' = [aSynced EXCEPT ![p] =
                                      [valid |-> TRUE, job |-> aMem[h].job,
                                       buf |-> aMem[h].buffer]]
               ELSE /\ aMem' = [aMem EXCEPT ![h].pc = "idle", ![h].job = "none",
                                            ![h].dirty = DirtyAfterPersist(@, ioOk)]
                    /\ UNCHANGED aSynced
            /\ aLast' = ALastOf(h, aMem[h].job, 3, IF ioOk THEN "Ok" ELSE "Io")
            /\ UNCHANGED <<aIds, aPaths, aElemSize, aFs>>

\* the future of sync / flush is dropped at one of its .await points
APersistCancel ==
    \E h \in aIds :
        /\ aMem[h].live /\ aMem[h].pc # "idle"
        /\ aMem' = [aMem EXCEPT ![h].pc = "idle", ![h].job = "none"]
        /\ aLast' = ALastOf(h, aMem[h].job, 0, "Cancelled")
        /\ UNCHANGED <<aIds, aPaths, aElemSize, aFs, aSynced>>

\* variant of Drop that writes the buffer to the file, as a sync would
ADropPersists ==
    \E h \in aIds :
        /\ Idle(h)
        /\ aMem' = [aMem EXCEPT ![h] = [NoHandle EXCEPT !.path = aMem[h].path]]
        /\ aFs' = [aFs EXCEPT ![aMem[h].path].bytes =
                      Serialize(aMem[h].buffer, aElemSize)]
        /\ aLast' = ALastOf(h, "drop", 0, "Ok")
        /\ UNCHANGED <<aIds, aPaths, aElemSize, aSynced>>

\* impl Drop for AsyncFileMem: an empty body; the buffer is freed
ADrop ==
    \E h \in aIds :
        /\ Idle(h)
        /\ aMem' = [aMem EXCEPT ![h] = [NoHandle EXCEPT !.path = aMem[h].path]]
        /\ aLast' = ALastOf(h, "drop", 0, "Ok")
        /\ UNCHANGED <<aIds, aPaths, aElemSize, aFs, aSynced>>

AsyncNext ==
    \/ ACreate
    \/ ATemp
    \/ AOpen
    \/ AGrowFilled
    \/ AGrowWith
    \/ AGrowZeroed
    \/ AGrowFromSlice
    \/ AShrink
    \/ ASet
    \/ AAsSliceMut
    \/ APersistOpen
    \/ APersistWrite
    \/ APersistFinish
    \/ APersistCancel
    \/ ADrop


\* ---------------------------------------------------------------- mapped file
MapItemSizes == {0, 1, 2}
FileLens == {0, DEFAULT_PAGE_SIZE + 1}
\* variant of max that keeps the current length of the file
LargerKeepsFirst(a, b) == a

\* std::cmp::max
Larger(a, b) == IF a > b THEN a ELSE b

\* variant of handle_narrow that spares the first of the trailing elements
HandleNarrowShort(allocated, capacity) == DropEvents(capacity + 2, allocated)

\* variant of handle_narrow that starts one element early, at [capacity - 1..]
HandleNarrowEarly(allocated, capacity) == DropEvents(capacity, allocated)

\* Base::handle_narrow: drop_in_place of the elements [capacity..]
HandleNarrow(allocated, capacity) == DropEvents(capacity + 1, allocated)

\* Base::handle_expand, called with base.ptr already the new slice: the loop
\* over capacity .. allocated()
HandleExpand(allocated, capacity) ==
    [i \in 1 .. (allocated - capacity) |-> <<"expand", capacity + i>>]

MapStart(item, build, len) ==
    /\ mItem = item
    /\ mBuild = build
    /\ mFileLen = len
    /\ mState = "none"
    /\ mMapLen = 0
    /\ mCap = 0
    /\ mSlots = [i \in 1 .. MapCap |-> "live"]
    /\ mLast = [op |-> "none", arg |-> 0, res |-> "Ok", preCap |-> 0,
                preState |-> "none", events |-> <<>>]

\* a release build differs from a debug build where a product overflows,
\* which takes an item of more than one byte
MapInit ==
    \E item \in MapItemSizes, build \in {"debug", "release"}, len \in FileLens :
        /\ build = "release" => item > 1
        /\ MapStart(item, build, len)

MLastOf(op, arg, res, events) ==
    [op |-> op, arg |-> arg, res |-> res, preCap |-> mCap, preState |-> mState,
     events |-> events]

\* FileMapped::new_with: the whole file is mapped, then the file is extended
\* to DEFAULT_PAGE_SIZE / size_of::<T>() bytes; the result of set_len is dropped
MNew ==
    \E mapOk \in BOOLEAN, metaOk \in BOOLEAN, setOk \in BOOLEAN :
        /\ mState = "none"
        /\ IF mItem = 0
           THEN /\ mLast' = MLastOf("new", 0, "panic", <<>>)
                /\ UNCHANGED <<mFileLen, mState, mMapLen>>
           ELSE IF ~mapOk \/ ~metaOk
           THEN /\ mLast' = MLastOf("new", 0, "Io", <<>>)
                /\ UNCHANGED <<mFileLen, mState, mMapLen>>
           ELSE /\ mState' = "mapped"
                /\ mMapLen' = mFileLen
                /\ mFileLen' = IF setOk
                               THEN Larger(mFileLen, DEFAULT_PAGE_SIZE \div mItem)
                               ELSE mFileLen
                /\ mLast' = MLastOf("new", 0, "Ok",
                                    <<<<"map", mFileLen>>,
                                      <<"set_len", Larger(mFileLen, DEFAULT_PAGE_SIZE \div mItem)>>>>)
        /\ UNCHANGED <<mItem, mBuild, mCap, mSlots>>

\* variant of alloc_impl that changes the length of the file before it unmaps
AllocImplResizesMapped(capacity, io) ==
    LET product == capacity * mItem
        cap == product % (UsizeMax + 1)
        narrow == IF capacity < mCap THEN HandleNarrow(mCap, capacity) ELSE <<>>
        newLen == Larger(mFileLen, cap)
        allocated == cap \div mItem
        expand == IF capacity > allocated THEN HandleExpand(allocated, capacity)
                  ELSE <<>>
        failed(events, len) ==
            [res |-> "System", events |-> events, state |-> "unmapped",
             fileLen |-> len, mapLen |-> mMapLen, cap |-> mCap]
    IN  IF product > UsizeMax /\ mBuild = "debug"
        THEN [res |-> "panic", events |-> <<>>, state |-> mState,
              fileLen |-> mFileLen, mapLen |-> mMapLen, cap |-> mCap]
        ELSE IF io = "metadata" THEN failed(narrow \o <<<<"unmap", 0>>>>, mFileLen)
        ELSE IF io = "set_len" \/ newLen > IsizeMax
        THEN failed(narrow \o <<<<"unmap", 0>>>>, mFileLen)
        ELSE IF io = "map"
        THEN failed(narrow \o <<<<"set_len", newLen>>, <<"unmap", 0>>>>, newLen)
        ELSE [res |-> "Ok",
              events |-> narrow \o <<<<"set_len", newLen>>, <<"unmap", 0>>,
                                     <<"map", cap>>>> \o expand,
              state |-> "mapped", fileLen |-> newLen, mapLen |-> cap,
              cap |-> allocated]

\* FileMapped::alloc_impl: the byte size, handle_narrow, unmap, metadata,
\* set_len to the larger of the two lengths, map, the new base.ptr, and
\* handle_expand under the test made after base.ptr is replaced
AllocImpl(capacity, io) ==
    LET product == capacity * mItem
        cap == product % (UsizeMax + 1)
        narrow == IF capacity < mCap THEN HandleNarrow(mCap, capacity) ELSE <<>>
        head == narrow \o <<<<"unmap", 0>>>>
        newLen == Larger(mFileLen, cap)
        allocated == cap \div mItem
        expand == IF capacity > allocated THEN HandleExpand(allocated, capacity)
                  ELSE <<>>
        failed(events, len) ==
            [res |-> "System", events |-> events, state |-> "unmapped",
             fileLen |-> len, mapLen |-> mMapLen, cap |-> mCap]
    IN  IF product > UsizeMax /\ mBuild = "debug"
        THEN [res |-> "panic", events |-> <<>>, state |-> mState,
              fileLen |-> mFileLen, mapLen |-> mMapLen, cap |-> mCap]
        ELSE IF io = "metadata" THEN failed(head, mFileLen)
        ELSE IF io = "set_len" \/ newLen > IsizeMax THEN failed(head, mFileLen)
        ELSE IF io = "map" THEN failed(head \o <<<<"set_len", newLen>>>>, newLen)
        ELSE [res |-> "Ok",
              events |-> head \o <<<<"set_len", newLen>>, <<"map", cap>>>> \o expand,
              state |-> "mapped", fileLen |-> newLen, mapLen |-> cap,
              cap |-> allocated]

\* the slots after the drop_in_place calls among the events
SlotsAfter(events) ==
    [i \in 1 .. MapCap |->
        IF Occurs(events, <<"drop", i>>) = 0 THEN mSlots[i]
        ELSE IF mSlots[i] = "live" /\ Occurs(events, <<"drop", i>>) = 1
             THEN "dropped"
        ELSE "twice"]

\* a call that reaches alloc_impl; on a handle left unmapped, handle_narrow
\* works on memory that is no longer mapped and the process may be killed
MAlloc(op, arg, capacity, io, killed) ==
    LET r == AllocImpl(capacity, io)
    IN  IF killed
        THEN /\ mState = "unmapped" /\ capacity < mCap
             /\ mState' = "crashed"
             /\ mLast' = MLastOf(op, arg, "crash", <<>>)
             /\ UNCHANGED <<mItem, mBuild, mFileLen, mMapLen, mCap, mSlots>>
        ELSE /\ r.res = "Ok" => r.cap <= MapCap
             /\ mState' = r.state
             /\ mFileLen' = r.fileLen
             /\ mMapLen' = r.mapLen
             /\ mCap' = r.cap
             /\ mSlots' = SlotsAfter(r.events)
             /\ mLast' = MLastOf(op, arg, r.res, r.events)
             /\ UNCHANGED <<mItem, mBuild>>

MapAmounts == (0 .. MapCap) \cup {UsizeMax}
\* the call of alloc_impl that fails with an I/O error, if any
IoFailures == {"none", "metadata", "set_len", "map"}

\* RawMem::alloc of FileMapped
MAllocStep ==
    \E capacity \in MapAmounts, io \in IoFailures,
       killed \in (IF mState = "unmapped" THEN BOOLEAN ELSE {FALSE}) :
        /\ mState \in {"mapped", "unmapped"}
        /\ MAlloc("alloc", capacity, capacity, io, killed)

\* RawMem::grow (provided): checked_add of allocated(), then alloc
MGrowStep ==
    \E capacity \in MapAmounts, io \in IoFailures,
       killed \in (IF mState = "unmapped" THEN BOOLEAN ELSE {FALSE}) :
        /\ mState \in {"mapped", "unmapped"}
        /\ IF mCap + capacity > UsizeMax
           THEN /\ mLast' = MLastOf("grow", capacity, "CapacityOverflow", <<>>)
                /\ UNCHANGED <<mItem, mBuild, mFileLen, mState, mMapLen, mCap, mSlots>>
           ELSE MAlloc("grow", capacity, mCap + capacity, io, killed)

\* RawMem::shrink (provided): checked_sub of allocated(), then alloc
MShrinkStep ==
    \E capacity \in MapAmounts, io \in IoFailures,
       killed \in (IF mState = "unmapped" THEN BOOLEAN ELSE {FALSE}) :
        /\ mState \in {"mapped", "unmapped"}
        /\ IF capacity > mCap
           THEN /\ mLast' = MLastOf("shrink", capacity, "CapacityOverflow", <<>>)
                /\ UNCHANGED <<mItem, mBuild, mFileLen, mState, mMapLen, mCap, mSlots>>
           ELSE MAlloc("shrink", capacity, mCap - capacity, io, killed)

\* the caller stores an item through the slice a successful call returned
MWrite ==
    \E i \in 1 .. MapCap :
        /\ mState = "mapped"
        /\ mLast.res = "Ok" /\ mLast.op \in {"alloc", "grow", "shrink", "write"}
        /\ i <= mCap
        /\ mSlots' = [mSlots EXCEPT ![i] = "live"]
        /\ mLast' = MLastOf("write", i, "Ok", <<>>)
        /\ UNCHANGED <<mItem, mBuild, mFileLen, mState, mMapLen, mCap>>

\* variant of Drop that syncs the file first and unmaps last
MDropSyncsFirst ==
    \E syncOk \in BOOLEAN, killed \in (IF mState = "unmapped" THEN BOOLEAN ELSE {FALSE}) :
        /\ mState \in {"mapped", "unmapped"}
        /\ IF killed
           THEN /\ mState = "unmapped" /\ mCap > 0
                /\ mState' = "crashed"
                /\ mLast' = MLastOf("drop", 0, "crash", <<>>)
                /\ UNCHANGED mSlots
           ELSE /\ mState' = "dropped"
                /\ mSlots' = SlotsAfter(DropEvents(1, mCap))
                /\ mLast' = MLastOf("drop", 0, "Ok",
                                    <<<<IF syncOk THEN "sync_all" ELSE "sync_all_err", 0>>>>
                                    \o DropEvents(1, mCap)
                                    \o <<<<"unmap", 0>>>>)
        /\ UNCHANGED <<mItem, mBuild, mFileLen, mMapLen, mCap>>

\* impl Drop for FileMapped: drop_in_place of base.ptr, drop of the mapping,
\* sync_all with its result discarded
MDrop ==
    \E syncOk \in BOOLEAN, killed \in (IF mState = "unmapped" THEN BOOLEAN ELSE {FALSE}) :
        /\ mState \in {"mapped", "unmapped"}
        /\ IF killed
           THEN /\ mState = "unmapped" /\ mCap > 0
                /\ mState' = "crashed"
                /\ mLast' = MLastOf("drop", 0, "crash", <<>>)
                /\ UNCHANGED mSlots
           ELSE /\ mState' = "dropped"
                /\ mSlots' = SlotsAfter(DropEvents(1, mCap))
                /\ mLast' = MLastOf("drop", 0, "Ok",
                                    DropEvents(1, mCap)
                                    \o <<<<"unmap", 0>>,
                                         <<IF syncOk THEN "sync_all" ELSE "sync_all_err", 0>>>>)
        /\ UNCHANGED <<mItem, mBuild, mFileLen, mMapLen, mCap>>

MapNext ==
    \/ MNew
    \/ MAllocStep
    \/ MGrowStep
    \/ MShrinkStep
    \/ MWrite
    \/ MDrop

\* ---------------------------------------------------------------- specifications
vars == <<backend, heapVars, preVars, asyncVars, mapVars>>

\* the backends a specification does not exercise, at rest
PreRest == PreNew("fill", 0)
AsyncRest == AsyncNew({}, {}, 0)
MapRest == MapStart(0, "debug", 0)

\* SpecHeap: one heap-backed handle
OnlyHeap == backend = "heap" /\ HeapInit /\ PreRest /\ AsyncRest /\ MapRest

SpecHeap ==
    OnlyHeap /\ [][HeapNext /\ UNCHANGED <<backend, preVars, asyncVars, mapVars>>]_vars

\* SpecPre: one fixed-buffer handle, of either trait generation
OnlyPre == backend = "pre" /\ HeapInit /\ PreInit /\ AsyncRest /\ MapRest

SpecPre ==
    OnlyPre /\ [][PreNext /\ UNCHANGED <<backend, heapVars, asyncVars, mapVars>>]_vars

\* SpecAsync: one AsyncFileMem handle at a time, constructed at one path
OnlyAsync == backend = "async" /\ HeapInit /\ PreRest /\ AsyncInit /\ MapRest

SpecAsync ==
    OnlyAsync /\ [][AsyncNext /\ UNCHANGED <<backend, heapVars, preVars, mapVars>>]_vars

\* SpecTwoTemps: two AsyncFileMem handles of one process, both made by
\* temp(), each grown by grow_filled, persisted by sync or flush and
\* dropped, whose steps interleave
TwoTempsInit ==
    /\ backend = "async" /\ HeapInit /\ PreRest /\ MapRest
    /\ \E size \in ElemSizes : AsyncNew({1, 2}, {TempPath}, size)

TwoTempsNext ==
    \/ ATemp
    \/ AGrowFilled
    \/ APersistOpen
    \/ APersistWrite
    \/ APersistFinish
    \/ APersistCancel
    \/ ADrop

SpecTwoTemps ==
    TwoTempsInit /\ [][TwoTempsNext /\ UNCHANGED <<backend, heapVars, preVars, mapVars>>]_vars

\* SpecMap: one FileMapped handle over one file
OnlyMap == backend = "map" /\ HeapInit /\ PreRest /\ AsyncRest /\ MapInit

SpecMap ==
    OnlyMap /\ [][MapNext /\ UNCHANGED <<backend, heapVars, preVars, asyncVars>>]_vars

\* SpecBackends: a handle of any one of the backends
BackendsInit == OnlyHeap \/ OnlyPre \/ OnlyAsync \/ OnlyMap

BackendsNext ==
    \/ backend = "heap" /\ HeapNext /\ UNCHANGED <<backend, preVars, asyncVars, mapVars>>
    \/ backend = "pre" /\ PreNext /\ UNCHANGED <<backend, heapVars, asyncVars, mapVars>>
    \/ backend = "async" /\ AsyncNext /\ UNCHANGED <<backend, heapVars, preVars, mapVars>>
    \/ backend = "map" /\ MapNext /\ UNCHANGED <<backend, heapVars, preVars, asyncVars>>

SpecBackends == BackendsInit /\ [][BackendsNext]_vars

\* SpecAllocTrait: a handle of one of the implementors of the alloc-based
\* RawMem<T> trait that are in src/, PreAlloc<T, D> or FileMapped<T>
AllocTraitInit == OnlyPre \/ OnlyMap

AllocTraitNext ==
    \/ backend = "pre" /\ PreNext /\ UNCHANGED <<backend, heapVars, asyncVars, mapVars>>
    \/ backend = "map" /\ MapNext /\ UNCHANGED <<backend, heapVars, preVars, asyncVars>>

SpecAllocTrait == AllocTraitInit /\ [][AllocTraitNext]_vars

\* SpecGrowers: a handle of one of the backends that offer the initializing
\* grows (grow_filled, grow_with, ...): Alloc, PreAlloc, AsyncFileMem
GrowersInit == OnlyHeap \/ OnlyPre \/ OnlyAsync

GrowersNext ==
    \/ backend = "heap" /\ HeapNext /\ UNCHANGED <<backend, preVars, asyncVars, mapVars>>
    \/ backend = "pre" /\ PreNext /\ UNCHANGED <<backend, heapVars, asyncVars, mapVars>>
    \/ backend = "async" /\ AsyncNext /\ UNCHANGED <<backend, heapVars, preVars, mapVars>>

SpecGrowers == GrowersInit /\ [][GrowersNext]_vars

\* ---------------------------------------------------------------- heap claims
\* RawPlace::allocated: the slice [0, cap) behind ptr
HeapAllocated == Prefix(hCells, hPlace.cap)

HeapGrowPanicked ==
    /\ hLast.op \in {"grow_with", "grow_filled"}
    /\ hLast.res = "panic"

C3_GuardDestroysInitialisedPrefix ==
    HeapGrowPanicked =>
        \A j \in 1 .. (MaxCap + 1) :
            Occurs(hLast.events, <<"drop", hLast.preCap + j>>)
                = IF j <= hLast.panicAt THEN 1 ELSE 0

C3_FilledPanicsAtSecondClone ==
    /\ HeapGrowPanicked
    /\ hLast.op = "grow_filled"
    /\ hLast.panicAt = 1
    /\ hLast.arg = 3

C6_DropDestroysEachOnceThenReleases ==
    hLast.op = "drop" =>
        /\ \A i \in 1 .. (MaxCap + 1) :
              Occurs(hLast.events, <<"drop", i>>)
                  = IF i <= hLast.preCap THEN 1 ELSE 0
        /\ \A v \in Values :
              /\ hStrong[v] = hLast.preStrong[v] - Count(hLast.preCells, v)
              /\ hStrong[v] = 1
        /\ hLast.preCap > 0 =>
              /\ Occurs(hLast.events, <<"dealloc", 0>>) = 1
              /\ hLast.events[Len(hLast.events)] = <<"dealloc", 0>>

C6_DropOfMixedBlock ==
    /\ hLast.op = "drop"
    /\ hLast.preCap >= 2
    /\ \A v \in Values : Count(hLast.preCells, v) >= 1

C9_OverAllocOneBeyondBuffer ==
    /\ ( /\ pLast.op \in {"grow_with", "grow_filled"}
         /\ pLast.preUsed = 0
         /\ pLast.arg = Len(pPlace) + 1 )
       => ( /\ pLast.res = "OverAlloc"
            /\ pLast.available = Len(pPlace)
            /\ pLast.toAlloc = Len(pPlace) + 1
            /\ pUsed = 0 )
    /\ ( /\ bLast.op \in {"grow", "alloc"}
         /\ bLast.preAllocated = 0
         /\ bLast.arg = Len(bData) + 1 )
       => ( /\ bLast.res = "OverAlloc"
            /\ bLast.available = Len(bData)
            /\ bLast.toAlloc = Len(bData) + 1
            /\ bAllocated = 0 )

C9_GrowBeyondNonEmptyBuffer ==
    /\ pLast.op = "grow_filled"
    /\ pLast.preUsed = 0
    /\ Len(pPlace) >= 1
    /\ pLast.arg = Len(pPlace) + 1
    /\ pLast.res = "OverAlloc"

\* ---------------------------------------------------------------- round trips
\* C5 (as stated): on every backend a grow_filled(n, v) on an empty block
\* leaves exactly n copies of v allocated, and a shrink(n) of the block so
\* filled succeeds and leaves it empty
C5_GrowFilledThenShrinkRoundTrip ==
    /\ (hLast.op = "grow_filled" /\ hLast.res = "Ok" /\ hLast.preCap = 0)
       => HeapAllocated = Repeat(hLast.arg, hLast.val)
    /\ (hLast.op = "shrink" /\ hLast.arg > 0 /\ hLast.arg = hLast.preCap)
       => (hLast.res = "Ok" /\ HeapAllocated = <<>>)
    /\ (pLast.op = "grow_filled" /\ pLast.res = "Ok" /\ pLast.preUsed = 0)
       => PreAllocated = Repeat(pLast.arg, pLast.val)
    /\ (pLast.op = "shrink" /\ pLast.arg > 0 /\ pLast.arg = pLast.preUsed)
       => (pLast.res = "Ok" /\ PreAllocated = <<>>)
    /\ (aLast.op = "grow_filled" /\ aLast.res = "Ok" /\ aLast.preBuffer = <<>>)
       => aMem[aLast.h].buffer = Repeat(aLast.arg, aLast.val)
    /\ (aLast.op = "shrink" /\ aLast.arg > 0 /\ aLast.arg = Len(aLast.preBuffer))
       => (aLast.res = "Ok" /\ aMem[aLast.h].buffer = <<>>)
    /\ (mLast.op = "shrink" /\ mLast.arg > 0 /\ mLast.arg = mLast.preCap
            /\ mLast.preState = "mapped" /\ mLast.res # "System")
       => (mLast.res = "Ok" /\ mCap = 0)

\* C10 (as stated): after a successful sync and the disposal of the handle,
\* opening the same path yields exactly the elements the buffer held at that
\* sync, in the same order and with the same values
C10_ReopenYieldsSyncedBuffer ==
    ( /\ aLast.op = "open" /\ aLast.res = "Ok"
      /\ aSynced[aLast.arg].valid /\ aSynced[aLast.arg].job = "sync" )
    => aMem[aLast.h].buffer = aSynced[aLast.arg].buf

\* C10 (amended): for an item type of non-zero size, after a successful sync
\* and the disposal of the handle, opening the same path yields exactly the
\* elements the buffer held at that sync, in the same order and with the
\* same values
C10_ReopenYieldsSyncedItems ==
    ( /\ aLast.op = "open" /\ aLast.res = "Ok"
      /\ aSynced[aLast.arg].valid /\ aSynced[aLast.arg].job = "sync"
      /\ aElemSize > 0 )
    => aMem[aLast.h].buffer = aSynced[aLast.arg].buf

C10_ReopenedTwoDistinctItems ==
    /\ aLast.op = "open" /\ aLast.res = "Ok"
    /\ aSynced[aLast.arg].valid /\ aSynced[aLast.arg].job = "sync"
    /\ aElemSize > 0
    /\ Len(aSynced[aLast.arg].buf) = 2
    /\ aSynced[aLast.arg].buf[1] # aSynced[aLast.arg].buf[2]
    /\ aMem[aLast.h].live

\* ---------------------------------------------------------------- async claims
AMutators ==
    {"grow_filled", "grow_with", "grow_zeroed", "grow_from_slice", "shrink",
     "set", "as_slice_mut"}

\* C11: right after every successful mutating call of an AsyncFileMem (the
\* grow family, shrink, an in-range set, as_slice_mut) is_dirty() is true
C11_DirtyAfterMutation ==
    (aLast.op \in AMutators /\ aLast.res \in {"Ok", "Some"})
    => aMem[aLast.h].dirty

C11_CleanBlockGrownFromSlice ==
    /\ aLast.op = "grow_from_slice" /\ aLast.res = "Ok"
    /\ aLast.arg > 0
    /\ ~aLast.preDirty
    /\ aSynced[aMem[aLast.h].path].valid
    /\ aMem[aLast.h].dirty

\* C12: is_dirty() is false right after sync() or flush() returns Ok, and a
\* step of a handle that takes the flag from true to false is the return of
\* Ok by its sync or flush
C12_CleanOnlyBySuccessfulPersist ==
    /\ (aLast.op \in {"sync", "flush"} /\ aLast.res = "Ok")
       => ~aMem[aLast.h].dirty
    /\ ( /\ aLast.op # "none"
         /\ aMem[aLast.h].live
         /\ aLast.preDirty
         /\ ~aMem[aLast.h].dirty )
       => (aLast.op \in {"sync", "flush"} /\ aLast.res = "Ok")

C12_DirtyBlockFlushed ==
    /\ aLast.op = "flush" /\ aLast.res = "Ok"
    /\ aLast.preDirty
    /\ Len(aMem[aLast.h].buffer) > 0
    /\ ~aMem[aLast.h].dirty

\* C13: the drop of an AsyncFileMem writes nothing: only a construction or a
\* sync / flush step changes a file, and after the drop of a handle with no
\* persist call since its last successful sync / flush the file holds
\* exactly the bytes of the buffer persisted then
C13_DropWritesNothing ==
    /\ [][aLast'.op \notin {"create", "temp", "sync", "flush"} => aFs' = aFs]_vars
    /\ []( (aLast.op = "drop" /\ aSynced[aMem[aLast.h].path].valid)
           => aFs[aMem[aLast.h].path].bytes =
                  Serialize(aSynced[aMem[aLast.h].path].buf, aElemSize) )

C13_DroppedWithUnsavedChanges ==
    /\ aLast.op = "drop"
    /\ aLast.preDirty
    /\ aSynced[aMem[aLast.h].path].valid
    /\ aLast.preBuffer # aSynced[aMem[aLast.h].path].buf
    /\ aElemSize > 0
    /\ aFs[aMem[aLast.h].path].bytes # Serialize(aLast.preBuffer, aElemSize)

\* ---------------------------------------------------------------- alloc-based trait claims
\* C15: in the alloc-based trait a shrink(c) with c above allocated() returns
\* Err(CapacityOverflow) without a call of alloc, and the capacity and the
\* contents of the block stay as they were
C15_ShrinkAboveAllocatedOverflows ==
    /\ (bLast.op = "shrink" /\ bLast.arg > bLast.preAllocated)
       => ( /\ bLast.res = "CapacityOverflow"
            /\ bAllocated = bLast.preAllocated
            /\ bOccupied = bLast.preOccupied )
    /\ (mLast.op = "shrink" /\ mLast.arg > mLast.preCap)
       => ( /\ mLast.res = "CapacityOverflow"
            /\ mLast.events = <<>>
            /\ mCap = mLast.preCap
            /\ mState = mLast.preState )

C15_ShrinkAboveNonEmptyBlock ==
    /\ bLast.op = "shrink"
    /\ bLast.preAllocated > 0
    /\ bLast.arg = bLast.preAllocated + 1
    /\ bLast.res = "CapacityOverflow"
    /\ bAllocated = bLast.preAllocated

\* the growing operations of an AsyncFileMem
AGrows == {"grow_filled", "grow_with", "grow_zeroed", "grow_from_slice"}

\* C16: a grow whose addition, added to the current capacity, overflows usize
\* returns Err(CapacityOverflow) and changes nothing: capacity, contents, used
\* cursor and, on the async backend, the dirty flag
C16_GrowOverflowChangesNothing ==
    /\ (pLast.op \in {"grow_with", "grow_filled", "grow_zeroed"}
        /\ pLast.preUsed + pLast.arg > UsizeMax)
       => ( /\ pLast.res = "CapacityOverflow"
            /\ pUsed = pLast.preUsed
            /\ pPlace = pLast.prePlace
            /\ pLast.ret = <<>> )
    /\ (bLast.op = "grow" /\ bLast.preAllocated + bLast.arg > UsizeMax)
       => ( /\ bLast.res = "CapacityOverflow"
            /\ bAllocated = bLast.preAllocated
            /\ bOccupied = bLast.preOccupied )
    /\ (aLast.op \in AGrows /\ Len(aLast.preBuffer) + aLast.arg > UsizeMax)
       => ( /\ aLast.res = "CapacityOverflow"
            /\ aMem[aLast.h].buffer = aLast.preBuffer
            /\ aMem[aLast.h].dirty = aLast.preDirty )

C16_CleanAsyncBlockGrowOverflowed ==
    /\ aLast.op = "grow_filled"
    /\ aLast.preBuffer /= <<>>
    /\ Len(aLast.preBuffer) + aLast.arg > UsizeMax
    /\ aLast.res = "CapacityOverflow"
    /\ ~aLast.preDirty
    /\ ~aMem[aLast.h].dirty

\* ---------------------------------------------------------------- grow claims
\* the indices of the slots written by the initializer of the last heap grow
HeapWritten == {hLast.events[i][2] : i \in {j \in DOMAIN hLast.events : hLast.events[j][1] = "write"}}

\* C17: a successful grow hands the initializer exactly the addition new
\* slots [old_capacity, old_capacity + addition) and keeps the earlier
\* elements: grow_filled(a, x) on a block leaves the old elements followed by
\* a copies of x, so two of them in a row leave a copies of x and b copies of y
C17_GrowFilledAppends ==
    /\ (hLast.op = "grow_filled" /\ hLast.res = "Ok")
       => ( /\ HeapAllocated = hLast.preCells \o Repeat(hLast.arg, hLast.val)
            /\ hPlace.cap = hLast.preCap + hLast.arg
            /\ HeapWritten = (hLast.preCap + 1) .. (hLast.preCap + hLast.arg)
            /\ Len(hLast.preCells) = hLast.preCap )
    /\ (pLast.op = "grow_filled" /\ pLast.res = "Ok")
       => ( /\ PreAllocated = Prefix(pLast.prePlace, pLast.preUsed)
                              \o Repeat(pLast.arg, pLast.val)
            /\ pUsed = pLast.preUsed + pLast.arg
            /\ Len(pPlace) = Len(pLast.prePlace)
            /\ \A i \in (pUsed + 1) .. Len(pPlace) : pPlace[i] = pLast.prePlace[i] )
    /\ (aLast.op = "grow_filled" /\ aLast.res = "Ok")
       => aMem[aLast.h].buffer = aLast.preBuffer \o Repeat(aLast.arg, aLast.val)

C17_TwoGrowFilledInARow ==
    /\ hLast.op = "grow_filled"
    /\ hLast.res = "Ok"
    /\ hLast.preCells = <<1>>
    /\ HeapAllocated = <<1, 2, 2>>

\* the slice a grow_* of an AsyncFileMem returns: &mut buffer[old_len..]
AGrowReturned ==
    SubSeq(aMem[aLast.h].buffer, Len(aLast.preBuffer) + 1, Len(aMem[aLast.h].buffer))

\* C18: grow_from_slice(src) appends src.len() elements equal to those of src,
\* one by one in order, and returns exactly the newly added region
C18_GrowFromSliceAppendsSource ==
    (aLast.op = "grow_from_slice" /\ aLast.res = "Ok")
    => ( /\ Len(aLast.items) = aLast.arg
         /\ Len(aMem[aLast.h].buffer) = Len(aLast.preBuffer) + aLast.arg
         /\ Prefix(aMem[aLast.h].buffer, Len(aLast.preBuffer)) = aLast.preBuffer
         /\ \A i \in 1 .. aLast.arg :
                aMem[aLast.h].buffer[Len(aLast.preBuffer) + i] = aLast.items[i]
         /\ AGrowReturned = aLast.items )

C18_GrewFromTwoDistinctItems ==
    /\ aLast.op = "grow_from_slice"
    /\ aLast.res = "Ok"
    /\ aLast.items = <<258, 0>>
    /\ AGrowReturned = <<258, 0>>

\* the slot writes among the events of the last heap step, in their order
IsWrite(e) == e[1] = "write"

HeapWrites == SelectSeq(hLast.events, IsWrite)

\* C19: grow_with(addition, factory) calls factory exactly addition times and
\* stores the result of the i-th call in the i-th new slot, the first call
\* filling the lowest new index
C19_GrowWithFillsInCallOrder ==
    /\ (hLast.op = "grow_with" /\ hLast.res = "Ok")
       => ( /\ Len(hLast.val) = hLast.arg
            /\ \A v \in Values : hStrong[v] = hLast.preStrong[v] + Count(hLast.val, v)
            /\ HeapWrites = [i \in 1 .. hLast.arg |-> <<"write", hLast.preCap + i>>]
            /\ Len(HeapAllocated) = hLast.preCap + hLast.arg
            /\ \A i \in 1 .. hLast.arg : HeapAllocated[hLast.preCap + i] = hLast.val[i] )
    /\ (pLast.op = "grow_with" /\ pLast.res = "Ok")
       => ( /\ Len(pLast.val) = pLast.arg
            /\ pUsed = pLast.preUsed + pLast.arg
            /\ \A i \in 1 .. pLast.arg : pPlace[pLast.preUsed + i] = pLast.val[i]
            /\ pLast.ret = pLast.val )
    /\ (aLast.op = "grow_with" /\ aLast.res = "Ok")
       => ( /\ Len(aLast.items) = aLast.arg
            /\ Len(aMem[aLast.h].buffer) = Len(aLast.preBuffer) + aLast.arg
            /\ \A i \in 1 .. aLast.arg :
                   aMem[aLast.h].buffer[Len(aLast.preBuffer) + i] = aLast.items[i] )

C19_GrewWithTwoDistinctResults ==
    /\ hLast.op = "grow_with"
    /\ hLast.res = "Ok"
    /\ hLast.preCap = 1
    /\ hLast.val = <<2, 1>>
    /\ HeapAllocated[2] = 2
    /\ HeapAllocated[3] = 1

\* C20: grow_zeroed(addition) on a block of integer-like items leaves each of
\* the addition new elements equal to the all-zero value and the earlier
\* elements unchanged
C20_GrowZeroedAppendsZeroes ==
    /\ (pLast.op = "grow_zeroed" /\ pLast.res = "Ok")
       => ( /\ PreAllocated = Prefix(pLast.prePlace, pLast.preUsed) \o Repeat(pLast.arg, 0)
            /\ pLast.ret = Repeat(pLast.arg, 0) )
    /\ (aLast.op = "grow_zeroed" /\ aLast.res = "Ok")
       => ( /\ aMem[aLast.h].buffer = aLast.preBuffer \o Repeat(aLast.arg, 0)
            /\ AGrowReturned = Repeat(aLast.arg, 0) )

C20_ZeroedAfterNonZeroItem ==
    /\ aLast.op = "grow_zeroed"
    /\ aLast.res = "Ok"
    /\ aElemSize = 2
    /\ aLast.preBuffer = <<258>>
    /\ aMem[aLast.h].buffer = <<258, 0>>

\* ---------------------------------------------------------------- shrink claims
\* C21: a successful shrink(count) leaves the first capacity - count elements
\* with the values they held before the call, in the same positions
C21_ShrinkKeepsPrefix ==
    /\ (bLast.op = "shrink" /\ bLast.res = "Ok")
       => ( /\ bAllocated = bLast.preAllocated - bLast.arg
            /\ bAllocated <= Len(bData)
            /\ bData = Repeat(Len(bData), 0) )
    /\ (mLast.op = "shrink" /\ mLast.res = "Ok" /\ mLast.preState = "mapped")
       => ( /\ mCap = mLast.preCap - mLast.arg
            /\ \A i \in 1 .. mCap : Occurs(mLast.events, <<"drop", i>>) = 0
            /\ mMapLen = mCap * mItem
            /\ mFileLen >= mMapLen )

C21_ShrankMappedBlockKeepingFirst ==
    /\ mLast.op = "shrink"
    /\ mLast.res = "Ok"
    /\ mLast.preState = "mapped"
    /\ mItem = 2
    /\ mLast.preCap = 2
    /\ mCap = 1
    /\ mSlots[1] = "live"
    /\ mMapLen = 2
    /\ mFileLen > mMapLen

\* ---------------------------------------------------------------- fixed-buffer claims, continued
\* C22: in the fixed-buffer backend the used cursor (the allocated length)
\* never exceeds the length of the caller's buffer, whatever calls were made
\* and whether they succeeded or failed
C22_CursorWithinBuffer ==
    /\ pUsed <= Len(pPlace)
    /\ bAllocated <= Len(bData)

C22_FailedAllocOnFullBuffer ==
    /\ bLast.op = "alloc"
    /\ bLast.res = "OverAlloc"
    /\ bLast.preAllocated = Len(bData)
    /\ bAllocated = Len(bData)
    /\ Len(bData) > 0

\* C23 (as stated): on the fixed-buffer backend a shrink(count) with
\* count <= used returns Ok and reduces used by count
C23_PreAllocShrinkReducesUsed ==
    (pLast.op = "shrink" /\ pLast.arg <= pLast.preUsed)
    => ( /\ pLast.res = "Ok"
         /\ pUsed = pLast.preUsed - pLast.arg )

\* C24 (as stated): size_hint() of the fixed-buffer backend is the buffer
\* length minus the capacity already in use
C24_SizeHintIsRemaining == OldSizeHint = Len(bData) - bAllocated

\* C24 (amended): size_hint() of the fixed-buffer backend is the length of
\* the caller's buffer whatever capacity is in use: it is the largest
\* capacity an alloc can reach, so alloc(c) succeeds exactly when
\* c <= size_hint(), and no operation changes it
C24_SizeHintIsBufferLength ==
    /\ []( bLast.op = "alloc" => (bLast.res = "Ok" <=> bLast.arg <= OldSizeHint) )
    /\ []( bAllocated <= OldSizeHint )
    /\ []( pKind = "alloc" => \E len \in 0 .. MaxBuf : OldSizeHint = len /\ Len(bData) = len )
    /\ [][OldSizeHint' = OldSizeHint]_vars

C24_SizeHintWithCapacityInUse ==
    /\ pKind = "alloc"
    /\ bLast.op = "alloc"
    /\ bLast.res = "Ok"
    /\ bAllocated = 1
    /\ OldSizeHint = 2

\* ---------------------------------------------------------------- mapped-file claims
\* C7: a shrink(K) with K <= capacity on a mapped-file block whose mapping is
\* live destroys each of the K trailing elements exactly once and no other
\* element, within the call, and every destruction precedes the unmapping,
\* the resizing of the file and the new mapping
C7_ShrinkDestroysTrailingBeforeUnmap ==
    ( /\ mLast.op = "shrink"
      /\ mLast.arg <= mLast.preCap
      /\ mLast.preState = "mapped" )
    => ( /\ mLast.res \in {"Ok", "System"}
         /\ \A i \in 1 .. MapCap :
               Occurs(mLast.events, <<"drop", i>>) =
                   (IF i > mLast.preCap - mLast.arg /\ i <= mLast.preCap THEN 1 ELSE 0)
         /\ Occurs(mLast.events, <<"unmap", 0>>) = 1
         /\ \A i \in DOMAIN mLast.events, j \in DOMAIN mLast.events :
               ( /\ mLast.events[i][1] = "drop"
                 /\ mLast.events[j][1] \in {"unmap", "set_len", "map"} )
               => i < j )

C7_ShrinkOfOneOfTwoMapped ==
    /\ mLast.op = "shrink"
    /\ mLast.arg = 1
    /\ mLast.preCap = 2
    /\ mLast.preState = "mapped"
    /\ mLast.res = "Ok"
    /\ mCap = 1
    /\ mSlots[2] = "dropped"
    /\ mSlots[1] = "live"

\* C8 (as stated): on an empty heap or mapped-file block a grow by
\* usize::MAX elements fails with CapacityOverflow
C8_GrowByUsizeMaxOverflows ==
    /\ ( /\ hLast.op \in {"grow_filled", "grow_with"}
         /\ hLast.arg = UsizeMax
         /\ hLast.preCap = 0 )
       => hLast.res = "CapacityOverflow"
    /\ ( /\ mLast.op = "grow"
         /\ mLast.arg = UsizeMax
         /\ mLast.preCap = 0
         /\ mLast.preState = "mapped" )
       => mLast.res = "CapacityOverflow"

\* C25 (as stated): after a mapped-file block is constructed from a file, the
\* file is at least DEFAULT_PAGE_SIZE bytes long, whatever the item size
C25_FileAtLeastOnePage ==
    (mLast.op = "new" /\ mLast.res = "Ok") => mFileLen >= DEFAULT_PAGE_SIZE

\* C26 (as stated): after a successful shrink of a mapped-file block the file
\* is exactly new_capacity * size_of(Item) bytes long
C26_ShrinkTruncatesFile ==
    (mLast.op = "shrink" /\ mLast.res = "Ok") => mFileLen = mCap * mItem

\* C27: whenever a mapping is live, the file is at least as long as the
\* mapping, after any constructions, grows and shrinks
C27_FileCoversMapping ==
    mState = "mapped" => mFileLen >= mMapLen

C27_GrownMappingWithinFile ==
    /\ mState = "mapped"
    /\ mLast.op = "grow"
    /\ mLast.res = "Ok"
    /\ mCap = 2
    /\ mMapLen = 2 * mItem
    /\ mFileLen >= mMapLen

\* whether the mapping is live just before event number j of the last step
MappedBefore(j) ==
    LET marks == {i \in 1 .. (j - 1) : mLast.events[i][1] \in {"map", "unmap"}}
    IN  IF marks = {} THEN mLast.preState = "mapped"
        ELSE mLast.events[CHOOSE i \in marks : \A k \in marks : k <= i][1] = "map"

C28_SetOutOfRangeChangesNothing ==
    (aLast.op = "set" /\ aLast.arg >= Len(aLast.preBuffer))
    => ( /\ aLast.res = "None"
         /\ aMem[aLast.h].buffer = aLast.preBuffer
         /\ aMem[aLast.h].dirty = aLast.preDirty
         /\ aMem[aLast.h].live )

C28_SetPastEndOfCleanBlock ==
    /\ aLast.op = "set"
    /\ aLast.res = "None"
    /\ aLast.preBuffer /= <<>>
    /\ aLast.arg = Len(aLast.preBuffer)
    /\ ~aLast.preDirty
    /\ ~aMem[aLast.h].dirty

\* C29 (as stated): the file made by temp() is removed when the handle is
\* dropped: a handle just returned by temp() and dropped leaves no file at
\* its path
C29_TempFileRemovedOnDrop ==
    [][ ( /\ aLast.op = "temp" /\ aLast.res = "Ok"
          /\ aLast'.op = "drop" /\ aLast'.h = aLast.h )
        => ~aFs'[TempPath].exists ]_vars


\* ---------------------------------------------------------------- mapped-file claims, continued
\* the alloc, grow and shrink calls that returned Ok or an I/O error
MResized ==
    /\ mLast.op \in {"alloc", "grow", "shrink"}
    /\ mLast.res \in {"Ok", "System"}

\* C31 (as stated): after a grow or shrink of a mapped-file block returns,
\* with Ok or with an I/O error, the reported capacity lies inside a live
\* mapping, and the drop of the handle finds a mapping to unmap, once
C31_NeverLeftUnmapped ==
    /\ MResized => (mState = "mapped" /\ mCap * mItem <= mMapLen)
    /\ (mLast.op = "drop" /\ mLast.res = "Ok")
       => ( /\ mLast.preState = "mapped"
            /\ Occurs(mLast.events, <<"unmap", 0>>) = 1 )

\* C32 (as stated): when the capacity of a mapped-file block rises from old
\* to new, each element of [old, new) is written once with a value of the
\* expand initializer before the call returns, and no element of [0, old) is
\* written
C32_GrownElementsInitialised ==
    ( /\ mLast.op \in {"alloc", "grow"}
      /\ mLast.res = "Ok"
      /\ mLast.preState = "mapped"
      /\ mCap > mLast.preCap )
    => \A i \in 1 .. MapCap :
           Occurs(mLast.events, <<"expand", i>>) =
               (IF i > mLast.preCap /\ i <= mCap THEN 1 ELSE 0)

\* C33: the drop of a mapped-file block destroys all `capacity` elements,
\* then unmaps, then syncs the whole file, in this order, and a failure of
\* the sync is swallowed: the drop completes all the same
C33_DropDestroysUnmapsSyncs ==
    (mLast.op = "drop" /\ mLast.preState = "mapped")
    => ( /\ mLast.res = "Ok"
         /\ mState = "dropped"
         /\ Len(mLast.events) = mLast.preCap + 2
         /\ Prefix(mLast.events, mLast.preCap) = DropEvents(1, mLast.preCap)
         /\ mLast.events[mLast.preCap + 1] = <<"unmap", 0>>
         /\ mLast.events[mLast.preCap + 2] \in {<<"sync_all", 0>>, <<"sync_all_err", 0>>} )

C33_DropOfTwoWithFailedSync ==
    /\ mLast.op = "drop"
    /\ mLast.preState = "mapped"
    /\ mLast.preCap = 2
    /\ mLast.events = <<<<"drop", 1>>, <<"drop", 2>>, <<"unmap", 0>>, <<"sync_all_err", 0>>>>
    /\ mState = "dropped"

\* C39 (as stated): no element of a mapped-file block is destroyed more than
\* once, also when a shrink destroyed the trailing elements, failed at
\* metadata, set_len or map, and the handle is dropped afterwards
C39_NoElementDestroyedTwice ==
    \A i \in 1 .. MapCap : mSlots[i] # "twice"


\* ---------------------------------------------------------------- async-file claims, continued
\* C34: sync() and flush() clear the dirty flag only once the write of the
\* whole buffer and the sync_all / flush request have both succeeded: the
\* step that returns Ok is the one past the third await, with the bytes of
\* the buffer in the file; a step that fails at open, write or flush, one
\* that is still pending, and one abandoned at an await leave the dirty
\* flag and the buffer as they were
C34_DirtyClearedOnlyPastBothAwaits ==
    /\ (aLast.op \in {"sync", "flush"} /\ aLast.res \in {"Pending", "Io", "Cancelled"})
       => ( /\ aMem[aLast.h].dirty = aLast.preDirty
            /\ aMem[aLast.h].buffer = aLast.preBuffer )
    /\ (aLast.op \in {"sync", "flush"} /\ aLast.res = "Ok")
       => ( /\ aLast.arg = 3
            /\ ~aMem[aLast.h].dirty
            /\ aMem[aLast.h].buffer = aLast.preBuffer
            /\ aFs[aMem[aLast.h].path].bytes = Serialize(aMem[aLast.h].buffer, aElemSize) )

C34_SyncFailedAtDurabilityRequest ==
    /\ aLast.op = "sync" /\ aLast.res = "Io" /\ aLast.arg = 3
    /\ aLast.preDirty
    /\ Len(aLast.preBuffer) = 2
    /\ aMem[aLast.h].dirty
    /\ aMem[aLast.h].buffer = aLast.preBuffer
    /\ aFs[aMem[aLast.h].path].bytes = Serialize(aLast.preBuffer, aElemSize)

\* C38: AsyncFileMem::shrink(count) never fails: with count above the length
\* it empties the buffer and returns Ok, otherwise it removes the trailing
\* count items and keeps the others
C38_ShrinkSaturates ==
    aLast.op = "shrink"
    => ( /\ aLast.res = "Ok"
         /\ aMem[aLast.h].live
         /\ aMem[aLast.h].buffer =
                (IF aLast.arg > Len(aLast.preBuffer)
                 THEN <<>>
                 ELSE Prefix(aLast.preBuffer, Len(aLast.preBuffer) - aLast.arg)) )

C38_ShrinkByMoreThanLength ==
    /\ aLast.op = "shrink" /\ aLast.res = "Ok"
    /\ Len(aLast.preBuffer) = 2
    /\ aLast.arg > 2
    /\ aMem[aLast.h].buffer = <<>>


\* ---------------------------------------------------------------- initializer claims, continued
\* C35: a grow_filled(n, value) of items that are Clone but not Copy that
\* returns Ok has made n - 1 clones of value when n >= 1, the original being
\* moved into the last new slot and not destroyed; with n = 0 it has made no
\* clone and has destroyed value once
C35_GrowFilledClonesAllButLast ==
    (hLast.op = "grow_filled" /\ hLast.res = "Ok")
    => ( /\ hLast.clones = (IF hLast.arg = 0 THEN 0 ELSE hLast.arg - 1)
         /\ Occurs(hLast.events, <<"drop_value", 0>>) = (IF hLast.arg = 0 THEN 1 ELSE 0)
         /\ hStrong = [v \in Values |->
                          IF v = hLast.val THEN hLast.preStrong[v] + hLast.arg
                          ELSE hLast.preStrong[v]]
         /\ hLast.arg >= 1 => hCells[hLast.preCap + hLast.arg] = hLast.val )

C35_GrowFilledByTwoThenByZero ==
    /\ hLast.op = "grow_filled" /\ hLast.res = "Ok"
    /\ hLast.arg = 0
    /\ hLast.preCap = 2
    /\ hLast.preStrong[hLast.val] = 3
    /\ hLast.events[Len(hLast.events)] = <<"drop_value", 0>>

\* C37: a grow or an alloc of a fixed-buffer block that fails with OverAlloc
\* has run no initializer: the used cursor and every element of the buffer
\* are as before the call, and no slice is returned
C37_OverAllocChangesNothing ==
    /\ pLast.res = "OverAlloc"
       => ( /\ pUsed = pLast.preUsed
            /\ pPlace = pLast.prePlace
            /\ pLast.ret = <<>>
            /\ pLast.panicAt = NoPanic )
    /\ bLast.res = "OverAlloc"
       => ( /\ bAllocated = bLast.preAllocated
            /\ bOccupied = bLast.preOccupied
            /\ bData = Repeat(Len(bData), 0) )

C37_OverAllocOnPartlyUsedBuffer ==
    /\ pLast.op = "grow_with"
    /\ pLast.res = "OverAlloc"
    /\ pLast.preUsed >= 1
    /\ pLast.preUsed < Len(pPlace)
    /\ pLast.arg <= MaxGrow
    /\ pUsed = pLast.preUsed


\* ---------------------------------------------------------------- temp() claims
\* C36 (as stated): two handles made by temp() and live at the same time do
\* not interfere: while the file of a handle g holds the buffer g persisted,
\* a temp(), sync or flush step of another handle leaves that file as it is
C36_TempHandlesDoNotInterfere ==
    [][ \A h \in aIds, g \in aIds :
           ( /\ h # g
             /\ aMem[g].live
             /\ ~aMem[g].dirty
             /\ Len(aMem[g].buffer) > 0
             /\ aFs[aMem[g].path].bytes = Serialize(aMem[g].buffer, aElemSize)
             /\ aLast'.h = h
             /\ aLast'.op \in {"temp", "sync", "flush"} )
           => aFs'[aMem[g].path] = aFs[aMem[g].path] ]_vars

====
